---- MODULE Spec2Model ----
(***************************************************************************)
(* DrugBox: the two device endpoints of box/views.py (add-user and         *)
(* handle-request) over the three tables of box/models.py (User,           *)
(* DosageSchedule, EventLog).                                              *)
(*                                                                         *)
(* Python's None and SQL NULL are modelled as the empty set and a present  *)
(* value v as {v}, so that every field has one type.  A request field that *)
(* JSON lets be of several types (fingerprint_id, timestamp) is a tagged   *)
(* record.  An exception that leaves the view is the response 500.         *)
(* Database defaults are Django's: autocommit, one statement at a time.    *)
(***************************************************************************)
EXTENDS Integers, Sequences, FiniteSets, TLC

VARIABLES users, schedules, log, call, reqs

vars == <<users, schedules, log, call, reqs>>

\* ------------------------------------------------------------------ bounds

MaxUsers == 2
MaxSchedules == 1
MaxLog == 2

\* ------------------------------------------------------- request values

RfidCodes == {"RFID1", "RFID2"}
\* rfid_code as request.data.get returns it: None, or a string.
RfidInputs == {{}} \cup {{r} : r \in RfidCodes}

\* The identities the back office registers: (rfid_code, fingerprint_id).
Enrolled == {<<"RFID1", 1>>, <<"RFID2", 2>>}
Names == {"Test User"}
DateTexts == {"D1", "D2"}
Dosages == {25, 30}

DigitVal == [c \in {"0", "1", "2"} |-> IF c = "0" THEN 0 ELSE IF c = "1" THEN 1 ELSE 2]

FpNone == [t |-> "none", n |-> 0, s |-> <<>>]
FpInt(n) == [t |-> "int", n |-> n, s |-> <<>>]
FpStr(s) == [t |-> "str", n |-> 0, s |-> s]
\* fingerprint_id as request.data.get returns it: None, a JSON integer, or a
\* string (a sequence of characters; every field of a form-encoded body is one).
FpInputs ==
    {FpNone, FpInt(0), FpInt(1), FpStr(<<"2">>), FpStr(<<"x">>)}

TsNone == [t |-> "none", s |-> <<>>]
TsNum == [t |-> "num", s |-> <<>>]
TsStr(s) == [t |-> "str", s |-> s]
\* timestamp as request.data.get returns it: None, a (non-zero) JSON number,
\* or a string, written as its pieces: a date text, the letter T, a clock
\* text, or text that is no date.
TsInputs ==
    {TsNone, TsNum}
        \cup {TsStr(<<d, "T", "10:30:00">>) : d \in DateTexts}
        \cup {TsStr(s) : s \in {<<"junk">>}}

\* ------------------------------------------------------ Python semantics

\* bool(x) of each request value.
RfidTruthy(rfid) == rfid # {} /\ rfid # {""}
FpTruthy(fp) ==
    CASE fp.t = "none" -> FALSE
      [] fp.t = "int" -> fp.n # 0
      [] OTHER -> fp.s # <<>>
TsTruthy(ts) ==
    CASE ts.t = "none" -> FALSE
      [] ts.t = "num" -> TRUE
      [] OTHER -> ts.s # <<>>

\* int(fp): defined on an integer and on a non-empty string of digits;
\* ValueError / TypeError otherwise.
CanInt(fp) ==
    \/ fp.t = "int"
    \/ fp.t = "str" /\ fp.s # <<>> /\ \A i \in 1..Len(fp.s) : fp.s[i] \in DOMAIN DigitVal

RECURSIVE StrToInt(_)
StrToInt(s) ==
    IF s = <<>> THEN 0
    ELSE 10 * StrToInt(SubSeq(s, 1, Len(s) - 1)) + DigitVal[s[Len(s)]]

IntOf(fp) == IF fp.t = "int" THEN fp.n ELSE StrToInt(fp.s)

\* ts.split("T")[0]: the pieces before the first T.
RECURSIVE SplitT(_)
SplitT(s) ==
    IF s = <<>> \/ Head(s) = "T" THEN <<>>
    ELSE <<Head(s)>> \o SplitT(Tail(s))

\* DateField.to_python of a string: a date, or ValidationError.
IsDateText(d) == Len(d) = 1 /\ d[1] \in DateTexts

\* ------------------------------------------------------------ the tables

\* User rows: [id, name, rfid_code, fingerprint_id]; name is {} for NULL.
\* DosageSchedule rows: [user, date, dosage, used]; user is a User id.
\* EventLog rows, in insertion order:
\*   [event_type, user, rfid_code, fingerprint_id, status, message].
\* call: the last request a view served and the response it gave
\* (status 500: an exception left the view), or NoCall.

NoCall ==
    [op |-> "none", name |-> {}, rfid |-> {}, fp |-> FpNone, ts |-> TsNone,
     status |-> 0, message |-> "", dosage |-> {}]

\* User.objects.get(rfid_code=rfid): the matching rows (at most one, by unique).
UserByRfid(rfid) == {u \in users : {u.rfid_code} = rfid}

\* DosageSchedule.objects.get(user=user, date=date): the matching rows (at most
\* one, by unique_together).
ScheduleFor(uid, date) == {d \in schedules : d.user = uid /\ d.date = date}

\* Mutant of CreateUser: a schema without NOT NULL on name and without
\* unique=True on rfid_code and fingerprint_id.
CreateUserUnconstrained(name, rfid, fp) ==
    IF fp.t # "none" /\ ~CanInt(fp)
    THEN [err |-> "Field 'fingerprint_id' expected a number", row |-> {}]
    ELSE IF rfid = {} \/ fp.t = "none"
    THEN [err |-> "NOT NULL constraint failed", row |-> {}]
    ELSE [err |-> "",
          row |-> {[id |-> Cardinality(users) + 1, name |-> name,
                    rfid_code |-> CHOOSE r \in rfid : TRUE,
                    fingerprint_id |-> IntOf(fp)]}]

\* User.objects.create(name=, rfid_code=, fingerprint_id=): the row to insert,
\* or the exception.  The field values are prepared first (IntegerField's
\* int(value)), then the INSERT meets the NOT NULL and UNIQUE constraints.
CreateUser(name, rfid, fp) ==
    IF fp.t # "none" /\ ~CanInt(fp)
    THEN [err |-> "Field 'fingerprint_id' expected a number", row |-> {}]
    ELSE IF name = {}
    THEN [err |-> "NOT NULL constraint failed: box_user.name", row |-> {}]
    ELSE IF rfid = {}
    THEN [err |-> "NOT NULL constraint failed: box_user.rfid_code", row |-> {}]
    ELSE IF fp.t = "none"
    THEN [err |-> "NOT NULL constraint failed: box_user.fingerprint_id", row |-> {}]
    ELSE IF UserByRfid(rfid) # {}
    THEN [err |-> "UNIQUE constraint failed: box_user.rfid_code", row |-> {}]
    ELSE IF \E u \in users : u.fingerprint_id = IntOf(fp)
    THEN [err |-> "UNIQUE constraint failed: box_user.fingerprint_id", row |-> {}]
    ELSE [err |-> "",
          row |-> {[id |-> Cardinality(users) + 1, name |-> name,
                    rfid_code |-> CHOOSE r \in rfid : TRUE,
                    fingerprint_id |-> IntOf(fp)]}]

\* Mutant of LogEvent: the row's status is always "Success", whatever the
\* view passes as status_.
LogEventAlwaysSuccess(user, rfid, fp, status_, message) ==
    IF fp.t # "none" /\ ~CanInt(fp)
    THEN [raised |-> TRUE, rows |-> <<>>]
    ELSE [raised |-> FALSE,
          rows |-> <<[event_type |-> "Authentication",
                      user |-> user,
                      rfid_code |-> rfid,
                      fingerprint_id |-> IF fp.t = "none" THEN {} ELSE {IntOf(fp)},
                      status |-> "Success",
                      message |-> message]>>]

\* log_event(user, rfid_code, fingerprint_id, status_, message): the rows
\* EventLog.objects.create adds, or raised when IntegerField cannot take the
\* fingerprint as submitted.
LogEvent(user, rfid, fp, status_, message) ==
    IF fp.t # "none" /\ ~CanInt(fp)
    THEN [raised |-> TRUE, rows |-> <<>>]
    ELSE [raised |-> FALSE,
          rows |-> <<[event_type |-> "Authentication",
                      user |-> user,
                      rfid_code |-> rfid,
                      fingerprint_id |-> IF fp.t = "none" THEN {} ELSE {IntOf(fp)},
                      status |-> status_,
                      message |-> message]>>]

\* An exception that no handler of the view catches: the response is 500.
Unhandled(exc) == [status |-> 500, message |-> exc, dosage |-> {}, rows |-> <<>>, created |-> {}]

\* Mutant of LogThenRespond: a failed audit write is swallowed (try: log_event(...)
\* except Exception: pass) and the normal response is returned.
LogThenRespondSwallowing(user, rfid, fp, status_, logmsg, code, message, dosage, created) ==
    [status |-> code, message |-> message, dosage |-> dosage,
     rows |-> LogEvent(user, rfid, fp, status_, logmsg).rows, created |-> created]

\* log_event(...) followed by return Response(...).
LogThenRespond(user, rfid, fp, status_, logmsg, code, message, dosage, created) ==
    LET ev == LogEvent(user, rfid, fp, status_, logmsg)
    IN  IF ev.raised
        THEN [Unhandled("ValueError") EXCEPT !.created = created]
        ELSE [status |-> code, message |-> message, dosage |-> dosage,
              rows |-> ev.rows, created |-> created]

\* Mutant of NoDosageResponse: the row is logged without the user, log_event(None, ...).
NoDosageResponseAnonymous(user, rfid, fp) ==
    LogThenRespond({}, rfid, fp, "Failed", "No dosage for date",
                   403, "No dosage defined for the specified date", {}, {})

\* except DosageSchedule.DoesNotExist: log_event(user, ...); return 403.
NoDosageResponse(user, rfid, fp) ==
    LogThenRespond({user.id}, rfid, fp, "Failed", "No dosage for date",
                   403, "No dosage defined for the specified date", {}, {})

\* Mutant of DosageResponse: the body carries no dosage, Response({"status": "success"}).
DosageResponseWithoutDosage(user, rfid, fp, dosage_obj) ==
    LogThenRespond({user.id}, rfid, fp, "Success", "Authentication successful, dosage sent",
                   200, "", {}, {})

\* The success path: log_event(user, ..., "Success", ...); return 200 with the dosage.
DosageResponse(user, rfid, fp, dosage_obj) ==
    LogThenRespond({user.id}, rfid, fp, "Success", "Authentication successful, dosage sent",
                   200, "", {dosage_obj.dosage}, {})

\* Mutant of HandleRequestPost: the fingerprint comparison of line 33 is left
\* out, the RFID alone authorizes.
HandleRequestPostWithoutFingerprint(rfid, fp, ts) ==
    IF ~(RfidTruthy(rfid) /\ FpTruthy(fp) /\ TsTruthy(ts))
    THEN LogThenRespond({}, rfid, fp, "Failed", "Missing required fields",
                        400, "Missing required fields", {}, {})
    ELSE IF UserByRfid(rfid) = {}
    THEN LogThenRespond({}, rfid, fp, "Failed", "RFID not found",
                        404, "RFID not found", {}, {})
    ELSE LET user == CHOOSE u \in UserByRfid(rfid) : TRUE
         IN  IF ts.t # "str"
             THEN Unhandled("AttributeError")
             ELSE LET date == SplitT(ts.s)
                  IN  IF ~IsDateText(date)
                      THEN Unhandled("ValidationError")
                      ELSE IF ScheduleFor(user.id, date[1]) = {}
                      THEN NoDosageResponse(user, rfid, fp)
                      ELSE LET dosage_obj == CHOOSE d \in ScheduleFor(user.id, date[1]) : TRUE
                           IN  DosageResponse(user, rfid, fp, dosage_obj)

\* HandleRequestAPIView.post
HandleRequestPost(rfid, fp, ts) ==
    IF ~(RfidTruthy(rfid) /\ FpTruthy(fp) /\ TsTruthy(ts))
    THEN LogThenRespond({}, rfid, fp, "Failed", "Missing required fields",
                        400, "Missing required fields", {}, {})
    ELSE IF UserByRfid(rfid) = {}
    THEN LogThenRespond({}, rfid, fp, "Failed", "RFID not found",
                        404, "RFID not found", {}, {})
    ELSE LET user == CHOOSE u \in UserByRfid(rfid) : TRUE
         IN  IF ~CanInt(fp)
             THEN Unhandled("ValueError")
             ELSE IF user.fingerprint_id # IntOf(fp)
             THEN LogThenRespond({user.id}, rfid, fp, "Failed", "Fingerprint mismatch",
                                 401, "Fingerprint mismatch", {}, {})
             ELSE IF ts.t # "str"
             THEN Unhandled("AttributeError")
             ELSE LET date == SplitT(ts.s)
                  IN  IF ~IsDateText(date)
                      THEN Unhandled("ValidationError")
                      ELSE IF ScheduleFor(user.id, date[1]) = {}
                      THEN NoDosageResponse(user, rfid, fp)
                      ELSE LET dosage_obj == CHOOSE d \in ScheduleFor(user.id, date[1]) : TRUE
                           IN  DosageResponse(user, rfid, fp, dosage_obj)

\* AddUserFromDeviceAPIView.post
AddUserPost(rfid, fp) ==
    IF ~(RfidTruthy(rfid) /\ FpTruthy(fp))
    THEN LogThenRespond({}, rfid, fp, "Failed", "Missing required fields for user creation",
                        400, "Missing required fields", {}, {})
    ELSE LET made == CreateUser({}, rfid, fp)
         IN  IF made.err # ""
             THEN LogThenRespond({}, rfid, fp, "Failed", made.err,
                                 400, "RFID or fingerprint already exists", {}, {})
             ELSE LogThenRespond({(CHOOSE u \in made.row : TRUE).id}, rfid, fp,
                                 "Success", "User created by device",
                                 201, "User added successfully", {}, made.row)

\* ---------------------------------------------------------------- actions

\* reqs[p]: a request in flight in worker p, for the interleavings of two
\* requests: its position in the view (pc), the view's local variables, and
\* the response once it returned.  overlapped: another request was in flight
\* at some time between this one's start and its end.  op: the view serving it.
Procs == {1, 2}

Idle ==
    [pc |-> "idle", op |-> "none", rfid |-> {}, fp |-> FpNone, ts |-> TsNone, user |-> {},
     dosage_obj |-> {}, status |-> 0, message |-> "", dosage |-> {},
     overlapped |-> FALSE]

Init ==
    /\ users = {}
    /\ schedules = {}
    /\ log = <<>>
    /\ call = NoCall
    /\ reqs = [p \in Procs |-> Idle]

\* Mutant of HandleRequest: a dispensed row is consumed by deleting it
\* (dosage_obj.delete()) instead of being left in the table.
HandleRequestDeletingRow(rfid, fp, ts) ==
    LET r == HandleRequestPost(rfid, fp, ts)
    IN  /\ Len(log) < MaxLog
        /\ log' = log \o r.rows
        /\ call' = [op |-> "handle_request", name |-> {}, rfid |-> rfid, fp |-> fp,
                    ts |-> ts, status |-> r.status, message |-> r.message,
                    dosage |-> r.dosage]
        /\ schedules' = IF r.status = 200
                        THEN {d \in schedules : {d.dosage} # r.dosage}
                        ELSE schedules
        /\ UNCHANGED <<users, reqs>>

\* Mutant of HandleRequest: the log keeps the newest row first, the new row
\* is put before the rows already there.
HandleRequestPrepending(rfid, fp, ts) ==
    LET r == HandleRequestPost(rfid, fp, ts)
    IN  /\ Len(log) < MaxLog
        /\ log' = r.rows \o log
        /\ call' = [op |-> "handle_request", name |-> {}, rfid |-> rfid, fp |-> fp,
                    ts |-> ts, status |-> r.status, message |-> r.message,
                    dosage |-> r.dosage]
        /\ UNCHANGED <<users, schedules, reqs>>

\* POST /api/v1/handle-request/
HandleRequest(rfid, fp, ts) ==
    LET r == HandleRequestPost(rfid, fp, ts)
    IN  /\ Len(log) < MaxLog
        /\ log' = log \o r.rows
        /\ call' = [op |-> "handle_request", name |-> {}, rfid |-> rfid, fp |-> fp,
                    ts |-> ts, status |-> r.status, message |-> r.message,
                    dosage |-> r.dosage]
        /\ UNCHANGED <<users, schedules, reqs>>

\* POST /api/v1/add-user/ (the body may carry a name, which the view never reads)
AddUser(name, rfid, fp) ==
    LET r == AddUserPost(rfid, fp)
    IN  /\ Len(log) < MaxLog
        /\ Cardinality(users \cup r.created) <= MaxUsers
        /\ users' = users \cup r.created
        /\ log' = log \o r.rows
        /\ call' = [op |-> "add_user", name |-> name, rfid |-> rfid, fp |-> fp,
                    ts |-> TsNone, status |-> r.status, message |-> r.message,
                    dosage |-> r.dosage]
        /\ UNCHANGED <<schedules, reqs>>

\* The back office (and the tests' setUp): User.objects.create with a name.
AdminCreateUser(name, rfid, fp) ==
    LET made == CreateUser({name}, {rfid}, FpInt(fp))
    IN  /\ Cardinality(users) < MaxUsers
        /\ made.err = ""
        /\ users' = users \cup made.row
        /\ call' = NoCall
        /\ UNCHANGED <<schedules, log, reqs>>

\* The scheduling process: DosageSchedule.objects.create, one row per
\* (user, date) by unique_together.
AdminCreateSchedule(uid, date, dosage, used) ==
    /\ Cardinality(schedules) < MaxSchedules
    /\ \E u \in users : u.id = uid
    /\ ScheduleFor(uid, date) = {}
    /\ schedules' = schedules \cup {[user |-> uid, date |-> date, dosage |-> dosage, used |-> used]}
    /\ call' = NoCall
    /\ UNCHANGED <<users, log, reqs>>

Next ==
    \/ \E rfid \in RfidInputs, fp \in FpInputs, ts \in TsInputs : HandleRequest(rfid, fp, ts)
    \/ \E name \in {{}} \cup {{n} : n \in Names}, rfid \in RfidInputs, fp \in FpInputs :
           AddUser(name, rfid, fp)
    \/ \E name \in Names, e \in Enrolled : AdminCreateUser(name, e[1], e[2])
    \/ \E uid \in 1..MaxUsers, date \in DateTexts, dosage \in Dosages, used \in BOOLEAN :
           AdminCreateSchedule(uid, date, dosage, used)

Spec == Init /\ [][Next]_vars

\* ------------------------------------- two requests served concurrently
\* Each view one database statement at a time: no transaction and no lock
\* spans the statements of one request (autocommit), so the statements of
\* two requests interleave freely.

InFlight(r) == r.pc \notin {"idle", "done"}

Returned(r, resp) ==
    [r EXCEPT !.pc = "done", !.status = resp.status, !.message = resp.message,
              !.dosage = resp.dosage]

\* HandleRequestAPIView.post: the request arrives, lines 19-23, the field check.
ConcBegin(p, rfid, fp, ts) ==
    /\ reqs[p].pc = "idle"
    /\ LET busy == {q \in Procs : InFlight(reqs[q])}
           mine == [Idle EXCEPT !.op = "handle_request",
                                !.rfid = rfid, !.fp = fp, !.ts = ts,
                                !.overlapped = busy # {},
                                !.pc = IF RfidTruthy(rfid) /\ FpTruthy(fp) /\ TsTruthy(ts)
                                       THEN "get_user" ELSE "log_400"]
       IN  reqs' = [q \in Procs |->
                       IF q = p THEN mine
                       ELSE IF q \in busy THEN [reqs[q] EXCEPT !.overlapped = TRUE]
                       ELSE reqs[q]]
    /\ UNCHANGED <<users, schedules, log, call>>

\* Lines 27-37: User.objects.get, then the fingerprint comparison and the split.
ConcGetUser(p) ==
    LET r == reqs[p]
    IN  /\ r.pc = "get_user"
        /\ reqs' = [reqs EXCEPT ![p] =
              IF UserByRfid(r.rfid) = {} THEN [r EXCEPT !.pc = "log_404"]
              ELSE LET user == CHOOSE u \in UserByRfid(r.rfid) : TRUE
                   IN  IF ~CanInt(r.fp) THEN Returned(r, Unhandled("ValueError"))
                       ELSE IF user.fingerprint_id # IntOf(r.fp)
                       THEN [r EXCEPT !.pc = "log_401", !.user = {user}]
                       ELSE IF r.ts.t # "str" THEN Returned(r, Unhandled("AttributeError"))
                       ELSE [r EXCEPT !.pc = "get_schedule", !.user = {user}]]
        /\ UNCHANGED <<users, schedules, log, call>>

\* Lines 38-42: DosageSchedule.objects.get.
ConcGetSchedule(p) ==
    LET r == reqs[p]
        user == CHOOSE u \in r.user : TRUE
        date == SplitT(r.ts.s)
    IN  /\ r.pc = "get_schedule"
        /\ reqs' = [reqs EXCEPT ![p] =
              IF ~IsDateText(date) THEN Returned(r, Unhandled("ValidationError"))
              ELSE IF ScheduleFor(user.id, date[1]) = {} THEN [r EXCEPT !.pc = "log_403"]
              ELSE [r EXCEPT !.pc = "log_200",
                             !.dosage_obj = {CHOOSE d \in ScheduleFor(user.id, date[1]) : TRUE}]]
        /\ UNCHANGED <<users, schedules, log, call>>

\* The log_event of the branch reached (lines 24, 30, 34, 41, 44), then return.
ConcLogEvent(p) ==
    LET r == reqs[p]
        user == CHOOSE u \in r.user : TRUE
        resp ==
            CASE r.pc = "log_400" ->
                   LogThenRespond({}, r.rfid, r.fp, "Failed", "Missing required fields",
                                  400, "Missing required fields", {}, {})
              [] r.pc = "log_404" ->
                   LogThenRespond({}, r.rfid, r.fp, "Failed", "RFID not found",
                                  404, "RFID not found", {}, {})
              [] r.pc = "log_401" ->
                   LogThenRespond({user.id}, r.rfid, r.fp, "Failed", "Fingerprint mismatch",
                                  401, "Fingerprint mismatch", {}, {})
              [] r.pc = "log_403" -> NoDosageResponse(user, r.rfid, r.fp)
              [] OTHER -> DosageResponse(user, r.rfid, r.fp, CHOOSE d \in r.dosage_obj : TRUE)
    IN  /\ r.pc \in {"log_400", "log_404", "log_401", "log_403", "log_200"}
        /\ log' = log \o resp.rows
        /\ reqs' = [reqs EXCEPT ![p] = Returned(r, resp)]
        /\ UNCHANGED <<users, schedules, call>>

\* AddUserFromDeviceAPIView.post one database statement at a time.
\* The request arrives: lines 52-55, the field check.
ConcAddBegin(p, rfid, fp) ==
    /\ reqs[p].pc = "idle"
    /\ LET busy == {q \in Procs : InFlight(reqs[q])}
           mine == [Idle EXCEPT !.op = "add_user", !.rfid = rfid, !.fp = fp,
                                !.overlapped = busy # {},
                                !.pc = IF RfidTruthy(rfid) /\ FpTruthy(fp)
                                       THEN "create_user" ELSE "log_add_400"]
       IN  reqs' = [q \in Procs |->
                       IF q = p THEN mine
                       ELSE IF q \in busy THEN [reqs[q] EXCEPT !.overlapped = TRUE]
                       ELSE reqs[q]]
    /\ UNCHANGED <<users, schedules, log, call>>

\* Lines 59-61: User.objects.create, one INSERT that the database checks
\* against its constraints atomically; the row is committed at once.
ConcCreateUser(p) ==
    LET r == reqs[p]
        made == CreateUser({}, r.rfid, r.fp)
    IN  /\ r.pc = "create_user"
        /\ Cardinality(users \cup made.row) <= MaxUsers
        /\ users' = users \cup made.row
        /\ reqs' = [reqs EXCEPT ![p] =
              IF made.err # "" THEN [r EXCEPT !.pc = "log_add_exc", !.message = made.err]
              ELSE [r EXCEPT !.pc = "log_add_201", !.user = made.row]]
        /\ UNCHANGED <<schedules, log, call>>

\* The log_event of the branch reached (lines 56, 62, 65), then return.
ConcAddLogEvent(p) ==
    LET r == reqs[p]
        user == CHOOSE u \in r.user : TRUE
        resp ==
            CASE r.pc = "log_add_400" ->
                   LogThenRespond({}, r.rfid, r.fp, "Failed",
                                  "Missing required fields for user creation",
                                  400, "Missing required fields", {}, {})
              [] r.pc = "log_add_exc" ->
                   LogThenRespond({}, r.rfid, r.fp, "Failed", r.message,
                                  400, "RFID or fingerprint already exists", {}, {})
              [] OTHER ->
                   LogThenRespond({user.id}, r.rfid, r.fp, "Success", "User created by device",
                                  201, "User added successfully", {}, r.user)
    IN  /\ r.pc \in {"log_add_400", "log_add_exc", "log_add_201"}
        /\ log' = log \o resp.rows
        /\ reqs' = [reqs EXCEPT ![p] = Returned(r, resp)]
        /\ UNCHANGED <<users, schedules, call>>

\* The requests the two workers are given.
ConcFpInputs == {FpInt(1), FpStr(<<"2">>)}
ConcTsInputs == {TsStr(<<d, "T", "10:30:00">>) : d \in DateTexts}

NextConc ==
    \/ \E p \in Procs, rfid \in RfidInputs, fp \in ConcFpInputs, ts \in ConcTsInputs :
           ConcBegin(p, rfid, fp, ts)
    \/ \E p \in Procs : ConcGetUser(p)
    \/ \E p \in Procs : ConcGetSchedule(p)
    \/ \E p \in Procs : ConcLogEvent(p)
    \/ \E p \in Procs, rfid \in RfidInputs, fp \in ConcFpInputs : ConcAddBegin(p, rfid, fp)
    \/ \E p \in Procs : ConcCreateUser(p)
    \/ \E p \in Procs : ConcAddLogEvent(p)
    \/ \E name \in Names, e \in Enrolled : AdminCreateUser(name, e[1], e[2])
    \/ \E uid \in 1..MaxUsers, date \in DateTexts, dosage \in Dosages, used \in BOOLEAN :
           AdminCreateSchedule(uid, date, dosage, used)

SpecConc == Init /\ [][NextConc]_vars

\* ------------------------------------------------------------ the claims
\* A step whose new call.op is "handle_request" (or "add_user") and that
\* changes the state is one invocation of that view: the unprimed variables
\* are the tables before the call, the primed ones the tables after it.

Dispense(c) == c.op = "handle_request"
Enrollment(c) == c.op = "add_user"
AllPresent(c) == RfidTruthy(c.rfid) /\ FpTruthy(c.fp) /\ TsTruthy(c.ts)
\* The submitted fingerprint equals the stored one (after parsing).
FingerprintMatches(c, u) == CanInt(c.fp) /\ IntOf(c.fp) = u.fingerprint_id
\* The timestamp is a string with a calendar date before its T.
HasDate(c) == c.ts.t = "str" /\ IsDateText(SplitT(c.ts.s))
DateOf(c) == SplitT(c.ts.s)[1]

\* C1: after a dispense call returned 200 for (user, date), the next dispense
\* call with the same RFID, the same fingerprint and a timestamp on the same
\* date returns 403 'No dosage defined for the specified date', never 200.
C1_NoDoubleDispense ==
    [][(/\ Dispense(call) /\ call.status = 200
        /\ Dispense(call') /\ call'.rfid = call.rfid
        /\ CanInt(call'.fp) /\ IntOf(call'.fp) = IntOf(call.fp)
        /\ HasDate(call') /\ DateOf(call') = DateOf(call))
       => (/\ call'.status = 403
           /\ call'.message = "No dosage defined for the specified date")]_vars

\* C2: two dispense calls for the same user and date that ran concurrently
\* never both return 200 after both read the row with used = FALSE.
C2_AtMostOneConcurrentDispense ==
    ~ \E p, q \in Procs :
        /\ p # q
        /\ reqs[p].pc = "done" /\ reqs[q].pc = "done"
        /\ reqs[p].overlapped /\ reqs[q].overlapped
        /\ reqs[p].status = 200 /\ reqs[q].status = 200
        /\ reqs[p].dosage_obj = reqs[q].dosage_obj
        /\ \A d \in reqs[p].dosage_obj : ~d.used

\* C3: after a dispense call that returned 200, the DosageSchedule row of the
\* resolved user and the derived date has used = TRUE.
C3_DispensedRowIsUsed ==
    (Dispense(call) /\ call.status = 200)
        => \E u \in UserByRfid(call.rfid) :
               \E d \in ScheduleFor(u.id, DateOf(call)) : d.used

\* C4: every invocation of either view appends exactly one EventLog row.
C4_OneEventLogPerCall ==
    [][(Dispense(call') \/ Enrollment(call')) => Len(log') = Len(log) + 1]_vars

\* C5: a dispense call with all three fields present whose RFID matches no
\* user returns 404 'RFID not found' and writes one Failed row without a user.
C5_UnknownRfid ==
    [][(Dispense(call') /\ AllPresent(call') /\ UserByRfid(call'.rfid) = {})
       => (/\ call'.status = 404
           /\ call'.message = "RFID not found"
           /\ Len(log') = Len(log) + 1
           /\ log'[Len(log')].status = "Failed"
           /\ log'[Len(log')].user = {})]_vars

\* C6: a dispense call whose RFID resolves to a user and whose fingerprint
\* differs from the stored one returns 401 'Fingerprint mismatch' and writes
\* one Failed row that references the user.
C6_FingerprintMismatch ==
    [][\A u \in UserByRfid(call'.rfid) :
          (Dispense(call') /\ AllPresent(call') /\ ~FingerprintMatches(call', u))
          => (/\ call'.status = 401
              /\ call'.message = "Fingerprint mismatch"
              /\ Len(log') = Len(log) + 1
              /\ log'[Len(log')].status = "Failed"
              /\ log'[Len(log')].user = {u.id})]_vars

\* C7: a dispense call with matching RFID and fingerprint, for a date on which
\* the user has no DosageSchedule row, returns 403 'No dosage defined for the
\* specified date' and writes one Failed row that references the user.
C7_NoScheduleForDate ==
    [][\A u \in UserByRfid(call'.rfid) :
          (/\ Dispense(call') /\ AllPresent(call') /\ FingerprintMatches(call', u)
           /\ HasDate(call') /\ ScheduleFor(u.id, DateOf(call')) = {})
          => (/\ call'.status = 403
              /\ call'.message = "No dosage defined for the specified date"
              /\ Len(log') = Len(log) + 1
              /\ log'[Len(log')].status = "Failed"
              /\ log'[Len(log')].user = {u.id})]_vars

\* C7 witness: a dispense call was refused with 403 although the user has a
\* row, on another date.
C7_Witness ==
    /\ Dispense(call) /\ call.status = 403 /\ HasDate(call)
    /\ \E u \in UserByRfid(call.rfid) :
          /\ FingerprintMatches(call, u)
          /\ ScheduleFor(u.id, DateOf(call)) = {}
          /\ \E d \in schedules : d.user = u.id
          /\ log[Len(log)].user = {u.id}

\* C8: a dispense call with RFID, fingerprint or timestamp absent or falsy
\* returns 400 'Missing required fields', writes one Failed row without a
\* user, and leaves the User rows as they were.
C8_MissingFields ==
    [][(Dispense(call') /\ ~AllPresent(call'))
       => (/\ call'.status = 400
           /\ call'.message = "Missing required fields"
           /\ Len(log') = Len(log) + 1
           /\ log'[Len(log')].status = "Failed"
           /\ log'[Len(log')].user = {}
           /\ users' = users)]_vars

\* C9: an enrollment call with RFID and fingerprint present and held by no
\* user returns 201; afterwards exactly one user has that RFID, with the
\* submitted fingerprint, and one Success row references that user.
C9_FreshEnrollment ==
    [][(/\ Enrollment(call') /\ RfidTruthy(call'.rfid) /\ FpTruthy(call'.fp)
        /\ CanInt(call'.fp)
        /\ UserByRfid(call'.rfid) = {}
        /\ \A u \in users : u.fingerprint_id # IntOf(call'.fp))
       => (/\ call'.status = 201
           /\ \E u \in users' :
                 /\ {v \in users' : {v.rfid_code} = call'.rfid} = {u}
                 /\ u.fingerprint_id = IntOf(call'.fp)
                 /\ Len(log') = Len(log) + 1
                 /\ log'[Len(log')].status = "Success"
                 /\ log'[Len(log')].user = {u.id})]_vars

\* C10: an enrollment call (RFID present, fingerprint an integer) whose RFID
\* or fingerprint an existing user holds returns 400 'RFID or fingerprint
\* already exists', leaves the User rows as they were and writes one Failed row.
C10_DuplicateEnrollment ==
    [][(/\ Enrollment(call') /\ RfidTruthy(call'.rfid) /\ FpTruthy(call'.fp)
        /\ CanInt(call'.fp)
        /\ \/ UserByRfid(call'.rfid) # {}
           \/ \E u \in users : u.fingerprint_id = IntOf(call'.fp))
       => (/\ call'.status = 400
           /\ call'.message = "RFID or fingerprint already exists"
           /\ users' = users
           /\ Len(log') = Len(log) + 1
           /\ log'[Len(log')].status = "Failed")]_vars

\* C10 witness: an enrollment that reused the RFID of an existing user (with
\* another fingerprint) was refused.
C10_Witness ==
    /\ Enrollment(call) /\ call.status = 400
    /\ call.message = "RFID or fingerprint already exists"
    /\ CanInt(call.fp)
    /\ \E u \in UserByRfid(call.rfid) : u.fingerprint_id # IntOf(call.fp)
    /\ log[Len(log)].status = "Failed"

\* C11: an enrollment call in which the RFID or the fingerprint is absent or
\* empty returns 400 'Missing required fields', creates no User row and
\* writes one Failed row without a user.
C11_EnrollmentMissingFields ==
    [][(Enrollment(call') /\ ~(RfidTruthy(call'.rfid) /\ FpTruthy(call'.fp)))
       => (/\ call'.status = 400
           /\ call'.message = "Missing required fields"
           /\ users' = users
           /\ Len(log') = Len(log) + 1
           /\ log'[Len(log')].status = "Failed"
           /\ log'[Len(log')].user = {})]_vars

\* C12: in every state reached by any interleaving of enrollment and dispense
\* calls, no two User rows share an RFID and no two share a fingerprint; two
\* concurrent enrollments with the same RFID or the same fingerprint create
\* at most one user.
C12_UniqueCredentials ==
    /\ \A u, v \in users :
          u # v => (u.rfid_code # v.rfid_code /\ u.fingerprint_id # v.fingerprint_id)
    /\ \A p, q \in Procs :
          (/\ p # q
           /\ reqs[p].op = "add_user" /\ reqs[q].op = "add_user"
           /\ \/ reqs[p].rfid = reqs[q].rfid
              \/ IntOf(reqs[p].fp) = IntOf(reqs[q].fp))
          => Cardinality(reqs[p].user \cup reqs[q].user) <= 1

\* C12 witness: two enrollments with the same RFID ran concurrently to their
\* end while two users were enrolled.
C12_Witness ==
    /\ Cardinality(users) = 2
    /\ \E p, q \in Procs :
          /\ p # q
          /\ reqs[p].op = "add_user" /\ reqs[q].op = "add_user"
          /\ reqs[p].pc = "done" /\ reqs[q].pc = "done"
          /\ reqs[p].overlapped /\ reqs[q].overlapped
          /\ RfidTruthy(reqs[p].rfid) /\ reqs[p].rfid = reqs[q].rfid
          /\ Cardinality(UserByRfid(reqs[p].rfid)) = 1

\* C13: whenever a dispense call returns 200, the dosage in the response is
\* the dosage of the DosageSchedule row of the resolved user for the date
\* before the timestamp's T, and the row written is Success and references
\* that user.
C13_DosageOfTheRow ==
    [][(Dispense(call') /\ call'.status = 200)
       => (/\ HasDate(call')
           /\ \E u \in UserByRfid(call'.rfid) :
                 /\ \E d \in ScheduleFor(u.id, DateOf(call')) : call'.dosage = {d.dosage}
                 /\ Len(log') = Len(log) + 1
                 /\ log'[Len(log')].status = "Success"
                 /\ log'[Len(log')].user = {u.id})]_vars

\* C13 witness: a dispense call returned 200 with the dosage of the row, for
\* a fingerprint submitted as a numeric string.
C13_Witness ==
    /\ Dispense(call) /\ call.status = 200 /\ call.fp.t = "str"
    /\ \E u \in UserByRfid(call.rfid) :
          /\ \E d \in ScheduleFor(u.id, DateOf(call)) : call.dosage = {d.dosage}
          /\ log[Len(log)].status = "Success"
          /\ log[Len(log)].user = {u.id}

\* The call is an enrollment that C9 says succeeds: RFID and fingerprint
\* present, the fingerprint an integer, and no user holds either.
FreshEnrollment(c) ==
    /\ Enrollment(c) /\ RfidTruthy(c.rfid) /\ FpTruthy(c.fp) /\ CanInt(c.fp)
    /\ UserByRfid(c.rfid) = {}
    /\ \A u \in users : u.fingerprint_id # IntOf(c.fp)

\* C14: the row an enrollment call writes has event category 'ADD_USER' and
\* the row a dispense call writes has event category 'HANDLE_REQUEST',
\* whether the call succeeded or failed.
C14_EventCategoryPerHandler ==
    [][/\ (Enrollment(call') /\ Len(log') > Len(log))
             => log'[Len(log')].event_type = "ADD_USER"
       /\ (Dispense(call') /\ Len(log') > Len(log))
             => log'[Len(log')].event_type = "HANDLE_REQUEST"]_vars

\* C15: after a successful enrollment call (RFID and fingerprint held by no
\* user, as in C9) whose body carries a name, the created user's name is the
\* submitted name.
C15_SubmittedNameIsStored ==
    [][(FreshEnrollment(call') /\ call'.name # {})
       => \E u \in users' \ users :
             /\ {u.rfid_code} = call'.rfid
             /\ {u.name} = call'.name]_vars

\* C16: a successful enrollment call (RFID and fingerprint held by no user,
\* as in C9) creates the user with its name unset, whatever the body
\* contains: the persistence layer accepts a user record without a name.
C16_UserCreatedWithoutName ==
    [][FreshEnrollment(call')
       => \E u \in users' \ users :
             /\ {u.rfid_code} = call'.rfid
             /\ u.name = {}]_vars

\* The call reaches a log_event whose write fails: EventLog.objects.create
\* cannot take the submitted fingerprint.  Every branch of enrollment ends in
\* log_event; dispense reaches one with such a fingerprint on its missing
\* field and unknown RFID branches (otherwise int(fp) raises before it).
AuditWriteFails(c) ==
    /\ LogEvent({}, c.rfid, c.fp, "Failed", "").raised
    /\ \/ Enrollment(c)
       \/ Dispense(c) /\ (~AllPresent(c) \/ UserByRfid(c.rfid) = {})

C18_FirstFailingCheck ==
    [][Dispense(call')
       => (/\ ~AllPresent(call') => call'.status = 400
           /\ (AllPresent(call') /\ UserByRfid(call'.rfid) = {}) => call'.status = 404
           /\ \A u \in UserByRfid(call'.rfid) :
                 (AllPresent(call') /\ ~FingerprintMatches(call', u)) => call'.status = 401
           /\ call'.status = 403
                 => \E u \in UserByRfid(call'.rfid) : FingerprintMatches(call', u))]_vars

\* C19: every dispense call, whatever its input, ends with a status among
\* 200, 400, 401, 403 and 404 and writes one audit row; a timestamp that is no
\* string or has no date before its T is refused with 400.
C19_EveryDispenseCallIsAnswered ==
    [][Dispense(call')
       => (/\ call'.status \in {200, 400, 401, 403, 404}
           /\ Len(log') = Len(log) + 1
           /\ (TsTruthy(call'.ts) /\ ~HasDate(call')) => call'.status \in {400, 401, 404})]_vars

\* C20: an enrollment call whose fingerprint is present and not parseable as
\* an integer returns 400, not as a uniqueness conflict, creates no User row
\* and writes one Failed row without a user.
C20_UnparseableFingerprintEnrollment ==
    [][(Enrollment(call') /\ FpTruthy(call'.fp) /\ ~CanInt(call'.fp))
       => (/\ call'.status = 400
           /\ call'.message # "RFID or fingerprint already exists"
           /\ users' = users
           /\ Len(log') = Len(log) + 1
           /\ log'[Len(log')].status = "Failed"
           /\ log'[Len(log')].user = {})]_vars

\* The log after the step is the log before it with at most one row added
\* at its end.
AppendsAtMostOneRow ==
    /\ Len(log') \in {Len(log), Len(log) + 1}
    /\ SubSeq(log', 1, Len(log)) = log

\* C21: a dispense call that does not return 200 leaves every User row and
\* every DosageSchedule row as it was and at most appends its audit row; one
\* that returns 200 changes, besides the audit row, at most the used flag of
\* the one schedule row of the resolved user and the derived date.
C21_DispenseFrame ==
    [][Dispense(call')
       => (/\ users' = users
           /\ AppendsAtMostOneRow
           /\ call'.status # 200 => schedules' = schedules
           /\ call'.status = 200 =>
                 \E u \in UserByRfid(call'.rfid) :
                    LET mine == ScheduleFor(u.id, DateOf(call'))
                    IN  /\ Cardinality(mine) = 1
                        /\ schedules \ mine \subseteq schedules'
                        /\ \E d \in mine :
                              schedules' \ (schedules \ mine)
                                  \in {{d}, {[d EXCEPT !.used = ~d.used]}})]_vars

\* C21 witness: a dispense call returned 200 and the tables hold what they
\* held: two users, and the row of that user and date with its dosage.
C21_Witness ==
    /\ Dispense(call) /\ call.status = 200
    /\ Cardinality(users) = 2
    /\ \E u \in UserByRfid(call.rfid) :
          \E d \in ScheduleFor(u.id, DateOf(call)) : call.dosage = {d.dosage}

\* C22: no enrollment or dispense call takes a DosageSchedule row from
\* used = TRUE back to used = FALSE, and each dispense call that returns 200
\* takes exactly one row from used = FALSE to used = TRUE.
C22_UsedIsMonotonic ==
    [][(Dispense(call') \/ Enrollment(call'))
       => (/\ \A d \in schedules :
                 d.used => \E e \in schedules' :
                              e.user = d.user /\ e.date = d.date /\ e.used
           /\ (Dispense(call') /\ call'.status = 200)
                 => Cardinality({d \in schedules :
                        /\ ~d.used
                        /\ [d EXCEPT !.used = TRUE] \in schedules'}) = 1)]_vars

\* C23: the audit log is append-only: every step leaves the rows that exist
\* as they are, in their places, and adds rows only at the end.
C23_LogIsAppendOnly ==
    [][/\ Len(log') >= Len(log)
       /\ SubSeq(log', 1, Len(log)) = log]_vars

\* C23 witness: a dispense call added a Success row after a Failed row that
\* an enrollment call had written.
C23_Witness ==
    /\ Len(log) = 2
    /\ log[1].status = "Failed" /\ log[1].message = "Missing required fields for user creation"
    /\ log[2].status = "Success"
    /\ Dispense(call) /\ call.status = 200

\* C24: a dispense call returns 200 only if, when it is made, a user holds the
\* submitted RFID, that user's stored fingerprint equals the submitted one
\* (as numbers, after parsing) and that user has a DosageSchedule row on the
\* date before the timestamp's T, whose dosage is the one returned: no dosage
\* goes to a request with another user's RFID or a fingerprint that differs.
C24_DispenseOnlyWhenAuthorized ==
    [][(Dispense(call') /\ call'.status = 200)
       => (/\ HasDate(call')
           /\ \E u \in UserByRfid(call'.rfid) :
                 /\ FingerprintMatches(call', u)
                 /\ \E d \in ScheduleFor(u.id, DateOf(call')) :
                       call'.dosage = {d.dosage})]_vars

\* C24 witness: a dispense call was refused with 401 for a user who has a row
\* on the date asked for: the RFID is the user's, the fingerprint another's.
C24_Witness ==
    /\ Dispense(call) /\ call.status = 401 /\ HasDate(call)
    /\ \E u \in UserByRfid(call.rfid) :
          /\ ScheduleFor(u.id, DateOf(call)) # {}
          /\ CanInt(call.fp)
          /\ \E v \in users : v # u /\ v.fingerprint_id = IntOf(call.fp)

\* C25: the row a call writes agrees with its response: its status is
\* "Success" exactly when the call returned 200 (dispense) or 201
\* (enrollment), "Failed" exactly when it returned an error status, and it
\* references a user only if the call resolved or created that user.
C25_RowAgreesWithResponse ==
    [][(Dispense(call') \/ Enrollment(call'))
       => (/\ call'.status \in {200, 201} => Len(log') = Len(log) + 1
           /\ Len(log') = Len(log) + 1 =>
                 LET row == log'[Len(log')]
                 IN  /\ row.status \in {"Success", "Failed"}
                     /\ row.status = "Success"
                           <=> \/ Dispense(call') /\ call'.status = 200
                               \/ Enrollment(call') /\ call'.status = 201
                     /\ row.status = "Failed" <=> call'.status \in {400, 401, 403, 404}
                     /\ row.user # {} =>
                           \E u \in users' :
                              {u.id} = row.user /\ {u.rfid_code} = call'.rfid)]_vars

\* C25 witness: a dispense call resolved its user, was refused for the
\* fingerprint, and its Failed row references that user.
C25_Witness ==
    /\ Dispense(call) /\ call.status = 401
    /\ log # <<>>
    /\ log[Len(log)].status = "Failed"
    /\ log[Len(log)].message = "Fingerprint mismatch"
    /\ \E u \in UserByRfid(call.rfid) : log[Len(log)].user = {u.id}

====
